---- MODULE Spec2Model ----
(***************************************************************************)
(* A model of src/downloader.py: the concurrent, resumable downloader.     *)
(*                                                                         *)
(* Strings (target identifiers, URLs, lines of the retry file) are         *)
(* sequences of code points, so that Python's str comparison (sorted),     *)
(* str.strip and str.endswith are computed and not assumed.  A file on     *)
(* disk is a sequence of bytes; a byte of the resource behind URL u at     *)
(* position p is the pair <<u, p>>, so bytes of different resources and of *)
(* different positions are different.  Time is in milliseconds.            *)
(***************************************************************************)
EXTENDS Integers, Sequences, FiniteSets, TLC

(***************************************************************************)
(* Bounds of the model.                                                    *)
(***************************************************************************)
\* the longest manifest file, in lines
MaxTsvLines == 3
\* the longest retry file, in lines
MaxRetryLines == 2
\* the largest resource, in bytes
MaxSize == 2
\* the longest local file the model follows, in bytes
MaxFile == 3
\* the largest worker pool
MaxCpus == 2
\* the largest retry budget of a run with several tasks: such a run is followed
\* with download_task's max_retries scaled down to this
MaxBudget == 1
\* the length of every resource in a run with several tasks
RunSize == 1

(***************************************************************************)
(* Program constants.                                                      *)
(***************************************************************************)
\* download_task's max_retries as main passes it: max_retries=10
DefaultRetries == 10
\* main: partial(download_task, ..., backoff_factor=0.5), in milliseconds
backoff_factor == 500
\* download_file: response.iter_content(chunk_size=8192)
chunk_size == 8192

(***************************************************************************)
(* Strings.                                                                *)
(***************************************************************************)
\* ".tar"
DotTar == <<46, 116, 97, 114>>
\* "a.tar"
NameA == <<97>> \o DotTar
\* "a-.tar": sorts before "a.tar", since "-" (45) < "." (46)
NameADash == <<97, 45>> \o DotTar
\* "b.tar"
NameB == <<98>> \o DotTar
\* "c.tar": never a key of the manifest
NameC == <<99>> \o DotTar
\* "x.txt": not an archive name
NameTxt == <<120, 46, 116, 120, 116>>
\* "u1", "u2": the URLs that name a resource
Url1 == <<117, 49>>
Url2 == <<117, 50>>
URLs == {Url1, Url2}
\* "": an empty field
Empty == <<>>
\* " ", "\t", "\n", "\r": what str.strip() removes (with \v and \f)
Whitespace == {32, 9, 10, 13, 11, 12}

\* None where a str is expected: no string holds a negative code point
NoStr == <<-1>>
\* None where a number of bytes is expected
NoSize == -1

Min(a, b) == IF a <= b THEN a ELSE b

\* s.endswith(suffix)
EndsWith(s, suffix) ==
    /\ Len(s) >= Len(suffix)
    /\ SubSeq(s, Len(s) - Len(suffix) + 1, Len(s)) = suffix

\* a < b for Python str: the first differing code point decides, a proper
\* prefix is smaller
StrLess(a, b) ==
    \E k \in 1..(Len(b)) :
        /\ \A j \in 1..(k - 1) : j <= Len(a) /\ a[j] = b[j]
        /\ \/ k > Len(a)
           \/ k <= Len(a) /\ a[k] < b[k]

RECURSIVE LStrip(_)
LStrip(s) ==
    IF s # <<>> /\ Head(s) \in Whitespace THEN LStrip(Tail(s)) ELSE s

RECURSIVE RStrip(_)
RStrip(s) ==
    IF s # <<>> /\ s[Len(s)] \in Whitespace
    THEN RStrip(SubSeq(s, 1, Len(s) - 1))
    ELSE s

\* str.strip()
Strip(s) == RStrip(LStrip(s))

\* the elements of a sequence
Range(s) == {s[i] : i \in 1..Len(s)}

\* the number of places of s that hold x
RECURSIVE Count(_, _)
Count(s, x) ==
    IF s = <<>> THEN 0
    ELSE (IF Head(s) = x THEN 1 ELSE 0) + Count(Tail(s), x)

(***************************************************************************)
(* The manifest: load_tsv.  A line of the file is given as its fields,     *)
(* line.strip().split('\t'); the dict keeps the order of first insertion.  *)
(***************************************************************************)
\* the keys of a dict, in insertion order
Keys(d) == [i \in 1..Len(d) |-> d[i].key]

\* d.get(k): the value, or None
Get(d, k) ==
    IF \E i \in 1..Len(d) : d[i].key = k
    THEN d[CHOOSE i \in 1..Len(d) : d[i].key = k].val
    ELSE NoStr

\* d[k] = v
Put(d, k, v) ==
    IF \E i \in 1..Len(d) : d[i].key = k
    THEN [i \in 1..Len(d) |-> IF d[i].key = k THEN [key |-> k, val |-> v] ELSE d[i]]
    ELSE Append(d, [key |-> k, val |-> v])

RECURSIVE LoadFrom(_, _)
LoadFrom(lines, d) ==
    IF lines = <<>> THEN d
    ELSE LET parts == Head(lines)
         IN  LoadFrom(Tail(lines),
                      IF Len(parts) >= 2 /\ EndsWith(parts[1], DotTar)
                      THEN Put(d, parts[1], parts[2])
                      ELSE d)

load_tsv(lines) == LoadFrom(lines, <<>>)

(***************************************************************************)
(* The work queue: iterate_retry.                                          *)
(***************************************************************************)
\* x put into the ascending sequence s
RECURSIVE Insert(_, _)
Insert(x, s) ==
    IF s = <<>> THEN <<x>>
    ELSE IF StrLess(Head(s), x) THEN <<Head(s)>> \o Insert(x, Tail(s))
    ELSE <<x>> \o s

\* sorted(s), for strings
RECURSIVE sorted(_)
sorted(s) == IF s = <<>> THEN <<>> ELSE Insert(Head(s), sorted(Tail(s)))

\* [tar for tar in s if tar.endswith('.tar')]
RECURSIVE OnlyTars(_)
OnlyTars(s) ==
    IF s = <<>> THEN <<>>
    ELSE (IF EndsWith(Head(s), DotTar) THEN <<Head(s)>> ELSE <<>>)
         \o OnlyTars(Tail(s))

\* sorted left out: the keys in the order of the manifest
UnsortedKeys(map2url) == Keys(map2url)

\* sorted(map2url.keys())
SortedKeys(map2url) == sorted(Keys(map2url))

\* [tar for tar in sorted(map2url.keys()) if tar.endswith('.tar')]
AllTars(map2url) == OnlyTars(SortedKeys(map2url))

\* [line.strip() for line in lines if line.strip()]
RECURSIVE StrippedLines(_)
StrippedLines(lines) ==
    IF lines = <<>> THEN <<>>
    ELSE (IF Strip(Head(lines)) # <<>> THEN <<Strip(Head(lines))>> ELSE <<>>)
         \o StrippedLines(Tail(lines))

\* the list to_downloads; retry.exists is os.path.exists(retry_path)
ToDownloads(retry, map2url) ==
    IF ~retry.exists THEN AllTars(map2url)
    ELSE IF StrippedLines(retry.lines) = <<>> THEN AllTars(map2url)
    ELSE StrippedLines(retry.lines)

\* "if url": None and "" are both false
Truthy(url) == url # NoStr /\ url # Empty

\* the pairs the generator yields, in order
RECURSIVE Yielded(_, _)
Yielded(to_downloads, map2url) ==
    IF to_downloads = <<>> THEN <<>>
    ELSE LET tar == Head(to_downloads)
             url == Get(map2url, tar)
         IN  (IF Truthy(url) THEN <<[tar |-> tar, url |-> url]>> ELSE <<>>)
             \o Yielded(Tail(to_downloads), map2url)

iterate_retry(retry, map2url) == Yielded(ToDownloads(retry, map2url), map2url)

(***************************************************************************)
(* download_file: the pure parts.                                          *)
(***************************************************************************)
\* os.path.getsize(f) if os.path.exists(f) else 0
SizeOf(file) == IF file.exists THEN Len(file.data) ELSE 0

\* the Range header: the first byte asked for, or NoSize for no header
RangeHeader(current_size) == IF current_size > 0 THEN current_size ELSE NoSize

\* the file always opened in write mode
OpenModeWb(current_size) == "wb"

\* mode = 'ab' if current_size > 0 else 'wb'
OpenMode(current_size) == IF current_size > 0 THEN "ab" ELSE "wb"

\* total_size: Content-Length (NoSize: no such header) plus current_size
TotalSize(content_length, current_size) ==
    IF content_length # NoSize THEN content_length + current_size ELSE NoSize

\* 416 taken for an error like every other code
StatusBranchNo416(status) ==
    IF status \in {200, 206} THEN "stream" ELSE "Failed"

\* what a status code leads to
StatusBranch(status) ==
    IF status \in {200, 206} THEN "stream"
    ELSE IF status = 416 THEN "AlreadyComplete"
    ELSE "Failed"

\* a file of exactly total_size bytes taken for a short one
StreamVerdictStrict(total_size, current_size) ==
    IF total_size # NoSize
    THEN (IF total_size < current_size THEN "Completed" ELSE "Failed")
    ELSE "Completed"

\* an unknown length taken for a failure
StreamVerdictKnownOnly(total_size, current_size) ==
    IF total_size # NoSize /\ total_size <= current_size THEN "Completed" ELSE "Failed"

\* after the stream ended without exception: lines 76-81
StreamVerdict(total_size, current_size) ==
    IF total_size # NoSize
    THEN (IF total_size <= current_size THEN "Completed" ELSE "Failed")
    ELSE "Completed"

\* open(local_filename, mode): 'wb' creates or empties, 'ab' creates or keeps
Opened(file, mode) ==
    IF mode = "wb" \/ ~file.exists THEN [exists |-> TRUE, data |-> <<>>] ELSE file

\* f.write(chunk)
Written(file, chunk) == [exists |-> TRUE, data |-> file.data \o chunk]

(***************************************************************************)
(* The state.                                                              *)
(***************************************************************************)
VARIABLES
    max_retries, \* download_task's parameter max_retries
    tsv,         \* the manifest file: its lines, each split into its fields
    retry_file,  \* the retry file: [exists, lines]
    cpus,        \* args.cpus
    size,        \* the server: the length of the resource behind each URL
    disk,        \* the output directory: a file [exists, data] per target
    failed_log,  \* what the run appended to failed_downloads.txt, by line
    map2url,     \* main: the manifest as loaded
    tasks,       \* main: the list of tasks [tar, url]
    main_pc,     \* main: "start", "pool", "exit0", "interrupted", "error"
    progress,    \* main: the results its loop has received
    collected,   \* per task: main's loop has received its result
    pc,          \* per task: where its worker is
    retries,     \* per task: download_task's retries
    outcome,     \* per task: "none", "Success", "GaveUp", "Raised"
    att,         \* per task: download_file's locals in the current attempt
    result,      \* per task: how the last download_file call ended
    attempts,    \* per task: the calls of download_file made
    sleeps       \* per task: the time.sleep calls made, in order

vars == <<max_retries, tsv, retry_file, cpus, size, disk, failed_log, map2url,
          tasks, main_pc, progress, collected, pc, retries, outcome, att,
          result, attempts, sleeps>>

env == <<max_retries, tsv, retry_file, cpus, size>>
mainv == <<map2url, tasks>>

(***************************************************************************)
(* download_task: the pure parts.                                          *)
(***************************************************************************)
\* every task given the file of one target
SharedPath(tar) == NameA

\* local_path = os.path.join(output_dir, tar): one file per target
local_path(tar) == tar

\* while retries <= max_retries
LoopGuard(r) == r <= max_retries

\* the budget one attempt short
ExhaustedEarly(r) == r >= max_retries

\* if retries > max_retries
Exhausted(r) == r > max_retries

\* the 416 branch raising like an error
RaisedUnlessCompleted(res) == res # "Completed"

\* "except Exception": download_file raised
Raised(res) == res = "Failed"

\* the exception raised again once the budget is exhausted
ExhaustedRaises == "Raised"

\* how download_task ends once the budget is exhausted: break, and it returns
ExhaustedEnds == "GaveUp"

\* the target logged at every failed attempt
WritesLogAlways(r) == TRUE

\* the failed attempt that made retries r is followed by the write to
\* failed_downloads.txt: lines 178-182
WritesLog(r) == Exhausted(r)

\* a write at the offset the handle had when the file was opened, over what
\* another process has written there since
LogWrittenAtOpen(log, at, line) ==
    SubSeq(log, 1, at) \o <<line>> \o SubSeq(log, at + 2, Len(log))

\* failed_downloads.txt after the write of a line through a handle opened
\* with 'a' when the file held at lines: the line reaches the file in one
\* write when the handle is closed, and a file opened for appending is
\* written at its end, wherever the handle was at the open
LogWritten(log, at, line) == Append(log, line)

RECURSIVE Pow2(_)
Pow2(n) == IF n <= 0 THEN 1 ELSE 2 * Pow2(n - 1)

\* the exponent one too large
SleepTimeDoubled(r) == backoff_factor * Pow2(r)

\* sleep_time = backoff_factor * (2**(retries - 1))
SleepTime(r) == backoff_factor * Pow2(r - 1)

\* a run in which a target gave up ending with status 1
ExitStatusClean(at) == IF at = "exit0" /\ failed_log = <<>> THEN 0 ELSE 1

\* the exit status of the process
ExitStatus(at) == IF at = "exit0" THEN 0 ELSE 1

\* the targets a run can download: the keys the manifests of the model hold
Targets == {NameA, NameADash, NameB}

\* the resource behind a URL
Res(u) == [p \in 1..size[u] |-> <<u, p>>]

\* the bytes of the resource from offset from (0-based) to its end
ResFrom(u, from) == SubSeq(Res(u), from + 1, size[u])

NoFile == [exists |-> FALSE, data |-> <<>>]

\* download_file's locals before its first line
NoAttempt ==
    [current_size |-> 0, range |-> NoSize, status |-> 0,
     content_length |-> NoSize, total_size |-> NoSize, mode |-> "",
     from |-> 0, sent |-> 0, how |-> "", before |-> NoFile, log_at |-> 0]

Tasks == 1..Len(tasks)

\* a worker that sleeps taken for a free one
ActiveAwake ==
    {i \in Tasks : pc[i] \in {"call", "wait", "stream", "ret", "log"}}

\* the tasks that hold a worker of the pool
Active ==
    {i \in Tasks : pc[i] \in {"call", "wait", "stream", "ret", "sleep", "log"}}

SeqsUpTo(S, n) == UNION {[1..k -> S] : k \in 0..n}

\* the byte a hole in a file reads as
Nul == <<Empty, 0>>

\* f.write(chunk) with the handle at offset pos: 'ab' writes at the end of the
\* file whatever pos is, 'wb' writes at pos, over what is there
WriteAt(file, mode, pos, chunk) ==
    IF mode = "ab" \/ pos = Len(file.data) THEN Written(file, chunk)
    ELSE LET old == file.data
             gap == [k \in 1..(pos - Len(old)) |-> Nul]
             head == IF pos <= Len(old) THEN SubSeq(old, 1, pos) ELSE old \o gap
         IN  [exists |-> TRUE,
              data |-> head \o chunk \o SubSeq(old, pos + Len(chunk) + 1, Len(old))]

\* the status codes a server answers with; 500 stands for every other code
Statuses == {200, 206, 416, 500}

\* the offset the body of a response starts at: a 206 answers the Range
BodyFrom(status, range) == IF status = 206 /\ range # NoSize THEN range ELSE 0

(***************************************************************************)
(* main, up to the pool: lines 211-225.                                    *)
(***************************************************************************)
Prepare ==
    /\ main_pc = "start"
    /\ LET m == load_tsv(tsv)
           t == iterate_retry(retry_file, m)
           n == Len(t)
       IN  /\ map2url' = m
           /\ tasks' = t
           /\ main_pc' = IF n = 0 THEN "exit0" ELSE "pool"
           /\ collected' = [i \in 1..n |-> FALSE]
           /\ pc' = [i \in 1..n |-> "queued"]
           /\ retries' = [i \in 1..n |-> 0]
           /\ outcome' = [i \in 1..n |-> "none"]
           /\ att' = [i \in 1..n |-> NoAttempt]
           /\ result' = [i \in 1..n |-> "none"]
           /\ attempts' = [i \in 1..n |-> 0]
           /\ sleeps' = [i \in 1..n |-> <<>>]
    /\ UNCHANGED <<env, disk, failed_log, progress>>

(***************************************************************************)
(* The pool: a free worker takes the next task of the list.                *)
(***************************************************************************)
Dispatch(i) ==
    /\ main_pc = "pool"
    /\ pc[i] = "queued"
    /\ \A j \in 1..(i - 1) : pc[j] # "queued"
    /\ Cardinality(Active) < cpus
    /\ pc' = [pc EXCEPT ![i] = "call"]
    /\ retries' = [retries EXCEPT ![i] = 0]
    /\ UNCHANGED <<env, mainv, disk, failed_log, main_pc, progress, collected,
                   outcome, att, result, attempts, sleeps>>

(***************************************************************************)
(* download_task calls download_file: lines 172-174 and 35-47.  The file's *)
(* size is read and the request is sent.                                   *)
(***************************************************************************)
SendRequest(i) ==
    /\ pc[i] = "call"
    /\ IF LoopGuard(retries[i])
       THEN LET file == disk[local_path(tasks[i].tar)]
                current_size == SizeOf(file)
            IN  /\ att' = [att EXCEPT ![i] =
                              [NoAttempt EXCEPT !.current_size = current_size,
                                                !.range = RangeHeader(current_size),
                                                !.before = file]]
                /\ attempts' = [attempts EXCEPT ![i] = @ + 1]
                /\ pc' = [pc EXCEPT ![i] = "wait"]
       ELSE /\ pc' = [pc EXCEPT ![i] = "done"]
            /\ UNCHANGED <<att, attempts>>
    /\ UNCHANGED <<env, mainv, disk, failed_log, main_pc, progress, collected,
                   retries, outcome, result, sleeps>>

(***************************************************************************)
(* The answer arrives: lines 47-70 and 82-85.  The server chooses the      *)
(* status and whether it declares a length; or the request fails.          *)
(***************************************************************************)
Response(i) ==
    /\ pc[i] = "wait"
    /\ \/ \* requests.get raises: connection error, timeout
          /\ att' = [att EXCEPT ![i].how = "exception"]
          /\ result' = [result EXCEPT ![i] = "Failed"]
          /\ pc' = [pc EXCEPT ![i] = "ret"]
          /\ UNCHANGED disk
       \/ \E status \in Statuses, declared \in BOOLEAN :
            LET a == att[i]
                tar == local_path(tasks[i].tar)
                from == BodyFrom(status, a.range)
                body == ResFrom(tasks[i].url, from)
                content_length == IF declared THEN Len(body) ELSE NoSize
                branch == StatusBranch(status)
            IN  IF branch = "stream"
                THEN /\ att' = [att EXCEPT ![i] =
                                  [a EXCEPT !.status = status,
                                            !.content_length = content_length,
                                            !.total_size =
                                                TotalSize(content_length, a.current_size),
                                            !.mode = OpenMode(a.current_size),
                                            !.from = from]]
                     /\ disk' = [disk EXCEPT ![tar] =
                                    Opened(@, OpenMode(a.current_size))]
                     /\ pc' = [pc EXCEPT ![i] = "stream"]
                     /\ UNCHANGED result
                ELSE /\ att' = [att EXCEPT ![i] =
                                  [a EXCEPT !.status = status,
                                            !.content_length = content_length,
                                            !.how = "status"]]
                     /\ result' = [result EXCEPT ![i] = branch]
                     /\ pc' = [pc EXCEPT ![i] = "ret"]
                     /\ UNCHANGED disk
    /\ UNCHANGED <<env, mainv, failed_log, main_pc, progress, collected,
                   retries, outcome, attempts, sleeps>>

(***************************************************************************)
(* One round of the loop over response.iter_content: lines 71-74.  A chunk *)
(* holds at most chunk_size bytes; an empty one is dropped.                *)
(***************************************************************************)
WriteChunk(i) ==
    /\ pc[i] = "stream"
    /\ LET a == att[i]
           tar == local_path(tasks[i].tar)
           body == ResFrom(tasks[i].url, a.from)
       IN  \E n \in 0..Min(chunk_size, Len(body) - a.sent) :
             LET chunk == SubSeq(body, a.sent + 1, a.sent + n)
                 file == WriteAt(disk[tar], a.mode, a.sent, chunk)
             IN  /\ Len(file.data) <= MaxFile
                 /\ IF chunk # <<>>
                    THEN /\ disk' = [disk EXCEPT ![tar] = file]
                         /\ att' = [att EXCEPT ![i].sent = @ + n]
                    ELSE UNCHANGED <<disk, att>>
    /\ UNCHANGED <<env, mainv, failed_log, main_pc, progress, collected, pc,
                   retries, outcome, result, attempts, sleeps>>

(***************************************************************************)
(* The stream ends: its end is reached, the server stops early, or the     *)
(* connection breaks.  Lines 76-81 judge an end without exception.         *)
(***************************************************************************)
EndStream(i) ==
    /\ pc[i] = "stream"
    /\ \/ /\ att' = [att EXCEPT ![i].how = "eof"]
          /\ result' = [result EXCEPT ![i] =
                           StreamVerdict(att[i].total_size,
                                         SizeOf(disk[local_path(tasks[i].tar)]))]
       \/ /\ att' = [att EXCEPT ![i].how = "exception"]
          /\ result' = [result EXCEPT ![i] = "Failed"]
    /\ pc' = [pc EXCEPT ![i] = "ret"]
    /\ UNCHANGED <<env, mainv, disk, failed_log, main_pc, progress, collected,
                   retries, outcome, attempts, sleeps>>

(***************************************************************************)
(* download_file has returned or raised: lines 175-186, up to the sleep or *)
(* to the open of failed_downloads.txt.                                    *)
(***************************************************************************)
Handle(i) ==
    /\ pc[i] = "ret"
    /\ IF ~Raised(result[i])
       THEN /\ pc' = [pc EXCEPT ![i] = "done"]
            /\ outcome' = [outcome EXCEPT ![i] = "Success"]
            /\ att' = [att EXCEPT ![i] = NoAttempt]
            /\ UNCHANGED <<retries, sleeps>>
       ELSE LET r == retries[i] + 1
            IN  /\ retries' = [retries EXCEPT ![i] = r]
                /\ sleeps' = IF Exhausted(r) THEN sleeps
                             ELSE [sleeps EXCEPT ![i] = Append(@, SleepTime(r))]
                /\ IF WritesLog(r)
                   THEN /\ pc' = [pc EXCEPT ![i] = "log"]
                        /\ att' = [att EXCEPT ![i] =
                                      [NoAttempt EXCEPT !.log_at = Len(failed_log)]]
                   ELSE /\ pc' = [pc EXCEPT ![i] = "sleep"]
                        /\ att' = [att EXCEPT ![i] = NoAttempt]
                /\ UNCHANGED outcome
    /\ result' = [result EXCEPT ![i] = "none"]
    /\ UNCHANGED <<env, mainv, disk, failed_log, main_pc, progress, collected,
                   attempts>>

(***************************************************************************)
(* The line is written and the handle closed: lines 182-183.  The task     *)
(* ends when its budget is exhausted.                                      *)
(***************************************************************************)
LogAppend(i) ==
    /\ pc[i] = "log"
    /\ failed_log' = LogWritten(failed_log, att[i].log_at, tasks[i].tar)
    /\ IF Exhausted(retries[i])
       THEN /\ pc' = [pc EXCEPT ![i] = "done"]
            /\ outcome' = [outcome EXCEPT ![i] = ExhaustedEnds]
       ELSE /\ pc' = [pc EXCEPT ![i] = "sleep"]
            /\ UNCHANGED outcome
    /\ UNCHANGED <<env, mainv, disk, main_pc, progress, collected, retries,
                   att, result, attempts, sleeps>>

\* time.sleep returns: line 186, and back to line 172
Wake(i) ==
    /\ pc[i] = "sleep"
    /\ pc' = [pc EXCEPT ![i] = "call"]
    /\ UNCHANGED <<env, mainv, disk, failed_log, main_pc, progress, collected,
                   retries, outcome, att, result, attempts, sleeps>>

\* pool.terminate() left out: the workers run on
NotTerminated == pc

\* pool.terminate(): the workers are killed where they are
Terminated == [i \in Tasks |-> IF i \in Active THEN "killed" ELSE pc[i]]

(***************************************************************************)
(* main's loop over pool.imap_unordered: lines 231-235, and 241-245 when   *)
(* the result is an exception that the task raised.                        *)
(***************************************************************************)
Collect(i) ==
    /\ main_pc = "pool"
    /\ pc[i] = "done"
    /\ ~collected[i]
    /\ collected' = [collected EXCEPT ![i] = TRUE]
    /\ IF outcome[i] = "Raised"
       THEN /\ main_pc' = "error"
            /\ pc' = Terminated
            /\ UNCHANGED progress
       ELSE /\ progress' = progress + 1
            /\ UNCHANGED <<main_pc, pc>>
    /\ UNCHANGED <<env, mainv, disk, failed_log, retries, outcome, att, result,
                   attempts, sleeps>>

\* every result was received: the loop and the with block end, main returns
Finish ==
    /\ main_pc = "pool"
    /\ \A i \in Tasks : collected[i]
    /\ main_pc' = "exit0"
    /\ UNCHANGED <<env, mainv, disk, failed_log, progress, collected, pc,
                   retries, outcome, att, result, attempts, sleeps>>

\* KeyboardInterrupt in main: lines 236-240.  pool.terminate() kills the workers
Interrupt ==
    /\ main_pc = "pool"
    /\ main_pc' = "interrupted"
    /\ pc' = Terminated
    /\ UNCHANGED <<env, mainv, disk, failed_log, progress, collected, retries,
                   outcome, att, result, attempts, sleeps>>

\* another exception than KeyboardInterrupt reaches main's loop, such as one
\* that a task raised outside its try block: lines 241-245
Fault ==
    /\ main_pc = "pool"
    /\ main_pc' = "error"
    /\ pc' = Terminated
    /\ UNCHANGED <<env, mainv, disk, failed_log, progress, collected, retries,
                   outcome, att, result, attempts, sleeps>>

Next ==
    \/ Prepare
    \/ \E i \in Tasks : Dispatch(i)
    \/ \E i \in Tasks : SendRequest(i)
    \/ \E i \in Tasks : Response(i)
    \/ \E i \in Tasks : WriteChunk(i)
    \/ \E i \in Tasks : EndStream(i)
    \/ \E i \in Tasks : Handle(i)
    \/ \E i \in Tasks : LogAppend(i)
    \/ \E i \in Tasks : Wake(i)
    \/ \E i \in Tasks : Collect(i)
    \/ Finish
    \/ Interrupt

(***************************************************************************)
(* The initial states.                                                     *)
(***************************************************************************)
\* the lines of a manifest: two fields, an empty URL field before a third
\* field, a name that is no archive, a single field
TsvLines ==
    {<<NameA, Url1>>, <<NameADash, Url1>>, <<NameB, Url2>>, <<NameB, Url1>>,
     <<NameA, Empty, Url1>>, <<NameTxt, Url1>>, <<NameB>>}

\* the lines of a retry file: blank, names with and without white space around
\* them, a name the manifest does not hold
RetryLines ==
    {<<32>>, NameA, NameADash, NameB, <<32>> \o NameB \o <<9>>, NameC}

RetryFiles(Lines, n) ==
    {[exists |-> FALSE, lines |-> <<>>]}
    \cup {[exists |-> TRUE, lines |-> l] : l \in SeqsUpTo(Lines, n)}

\* the files a run may find: none, or what an earlier run left of the resource
FilesFor(m, t) ==
    IF Get(m, t) \in URLs
    THEN {NoFile} \cup {[exists |-> TRUE, data |-> SubSeq(Res(Get(m, t)), 1, k)] :
                           k \in 0..size[Get(m, t)]}
    ELSE {NoFile}

InitRun ==
    /\ failed_log = <<>>
    /\ map2url = <<>>
    /\ tasks = <<>>
    /\ main_pc = "start"
    /\ progress = 0
    /\ collected = <<>>
    /\ pc = <<>>
    /\ retries = <<>>
    /\ outcome = <<>>
    /\ att = <<>>
    /\ result = <<>>
    /\ attempts = <<>>
    /\ sleeps = <<>>

\* the directories a run may find, given the manifest file and the resources
Disks ==
    LET m == load_tsv(tsv)
        files == UNION {FilesFor(m, t) : t \in Targets}
    IN  {d \in [Targets -> files] : \A t \in Targets : d[t] \in FilesFor(m, t)}

\* a run of the whole program: two targets, every retry file of at most two
\* lines that names one of them or a target the manifest does not hold
Init ==
    /\ max_retries \in 0..MaxBudget
    /\ tsv \in {<<<<NameB, Url2>>, <<NameA, Url1>>>>}
    /\ retry_file \in RetryFiles({NameB, NameC}, 2)
    /\ cpus \in 1..MaxCpus
    /\ size = [u \in URLs |-> RunSize]
    /\ disk \in Disks
    /\ InitRun

Spec == Init /\ [][Next]_vars

\* a run with one task: download_task with no budget and with main's budget,
\* a resource of every length, every file an earlier run may have left
InitTask ==
    /\ max_retries \in {0, DefaultRetries}
    /\ tsv = <<<<NameA, Url1>>>>
    /\ retry_file = [exists |-> FALSE, lines |-> <<>>]
    /\ cpus = 1
    /\ size \in {[u \in URLs |-> IF u = Url1 THEN k ELSE 0] : k \in 0..MaxSize}
    /\ disk \in Disks
    /\ InitRun

SpecTask == InitTask /\ [][Next]_vars

\* the work queue alone: every manifest file and every retry file
InitResolve ==
    /\ max_retries = DefaultRetries
    /\ tsv \in SeqsUpTo(TsvLines, MaxTsvLines)
    /\ retry_file \in RetryFiles(RetryLines, MaxRetryLines)
    /\ cpus = 1
    /\ size = [u \in URLs |-> 0]
    /\ disk = [t \in Targets |-> NoFile]
    /\ InitRun

SpecResolve == InitResolve /\ [][Prepare]_vars

\* a run that no KeyboardInterrupt stops
NextRun ==
    \/ Prepare
    \/ \E i \in Tasks : Dispatch(i)
    \/ \E i \in Tasks : SendRequest(i)
    \/ \E i \in Tasks : Response(i)
    \/ \E i \in Tasks : WriteChunk(i)
    \/ \E i \in Tasks : EndStream(i)
    \/ \E i \in Tasks : Handle(i)
    \/ \E i \in Tasks : LogAppend(i)
    \/ \E i \in Tasks : Wake(i)
    \/ \E i \in Tasks : Collect(i)
    \/ Finish

\* three targets and a pool of one or two workers, or a retry file that names
\* no target of the manifest
InitPool ==
    /\ max_retries = MaxBudget
    /\ tsv = <<<<NameB, Url2>>, <<NameA, Url1>>, <<NameADash, Url1>>>>
    /\ retry_file \in {[exists |-> FALSE, lines |-> <<>>],
                       [exists |-> TRUE, lines |-> <<NameC>>]}
    /\ cpus \in 1..MaxCpus
    /\ size = [u \in URLs |-> RunSize]
    /\ disk \in {d \in Disks : d[NameADash] = NoFile /\ d[NameB] = NoFile}
    /\ InitRun

SpecPool == InitPool /\ [][NextRun]_vars

\* two targets, with main and the workers kept running: a request is answered
\* or fails, a stream ends, a sleep returns, a free worker takes the next
\* task, main receives the next result
InitLive ==
    /\ max_retries = MaxBudget
    /\ tsv = <<<<NameB, Url2>>, <<NameA, Url1>>>>
    /\ retry_file \in {[exists |-> FALSE, lines |-> <<>>],
                       [exists |-> TRUE, lines |-> <<NameC>>]}
    /\ cpus \in 1..MaxCpus
    /\ size = [u \in URLs |-> RunSize]
    /\ disk = [t \in Targets |-> NoFile]
    /\ InitRun

SpecLive == InitLive /\ [][NextRun]_vars /\ WF_vars(NextRun)

\* the same runs, stopped at any moment by a KeyboardInterrupt or by another
\* exception in main's loop
NextStop ==
    \/ NextRun
    \/ Interrupt
    \/ Fault

SpecStop == InitLive /\ [][NextStop]_vars

(***************************************************************************)
(* The retry policy.                                                       *)
(***************************************************************************)
\* the tasks of target t that gave up
GaveUp(t) == {i \in Tasks : tasks[i].tar = t /\ outcome[i] = "GaveUp"}

C2_OneAppend ==
    /\ \A t \in Targets : Count(failed_log, t) = Cardinality(GaveUp(t))
    /\ Range(failed_log) \subseteq Targets
    /\ \A i \in Tasks : pc[i] = "done" => outcome[i] \in {"Success", "GaveUp"}

C2_Witness ==
    \E i \in Tasks :
        /\ outcome[i] = "GaveUp"
        /\ retries[i] = DefaultRetries + 1
        /\ failed_log = <<tasks[i].tar>>

\* C3: once download_file returns without raising (Completed or
\* AlreadyComplete), the task ends in Success with no further attempt, no
\* sleep and no line in the failure log, and stays so, however many attempts
\* failed before.
C3_SuccessEndsLoop ==
    [][\A i \in Tasks :
         /\ (/\ pc[i] = "ret"
             /\ result[i] \in {"Completed", "AlreadyComplete"}
             /\ pc'[i] \notin {"ret", "killed"})
              => /\ pc'[i] = "done"
                 /\ outcome'[i] = "Success"
                 /\ attempts'[i] = attempts[i]
                 /\ sleeps'[i] = sleeps[i]
                 /\ failed_log' = failed_log
         /\ outcome[i] = "Success"
              => /\ pc'[i] = "done"
                 /\ outcome'[i] = "Success"
                 /\ attempts'[i] = attempts[i]
                 /\ sleeps'[i] = sleeps[i]
                 /\ Count(failed_log', tasks[i].tar)
                        = Cardinality({j \in Tasks : /\ tasks[j].tar = tasks[i].tar
                                                     /\ outcome'[j] = "GaveUp"})
      ]_vars

C3_Witness ==
    \E i \in Tasks :
        /\ max_retries = DefaultRetries
        /\ outcome[i] = "Success"
        /\ retries[i] = max_retries
        /\ failed_log = <<>>

\* C9: after the n-th failed attempt, and before attempt n + 1, the worker
\* sleeps once for backoff_factor * 2^(n-1) (500, 1000, 2000 ms, ... with no
\* cap); it does not sleep before the first attempt nor after the last failed
\* one.
C9_BackoffSchedule ==
    \A i \in Tasks :
        /\ Len(sleeps[i]) = Min(retries[i], max_retries)
        /\ \A n \in 1..Len(sleeps[i]) : sleeps[i][n] = backoff_factor * 2^(n - 1)
        /\ Len(sleeps[i]) >= 1 => sleeps[i][1] = 500
        /\ Len(sleeps[i]) >= 2 => sleeps[i][2] = 1000
        /\ Len(sleeps[i]) >= 3 => sleeps[i][3] = 2000
        /\ pc[i] \in {"wait", "stream", "ret", "done"}
               => Len(sleeps[i]) = attempts[i] - 1
        /\ pc[i] \in {"call", "sleep"} => Len(sleeps[i]) = attempts[i]

C9_Witness ==
    \E i \in Tasks :
        /\ outcome[i] = "GaveUp"
        /\ Len(sleeps[i]) = 10
        /\ sleeps[i][10] = 256000
        /\ attempts[i] = 11

(***************************************************************************)
(* The orchestrator and a task that gives up.                              *)
(***************************************************************************)
\* a step of a worker or of main's loop: every step but the interrupt
Work ==
    \/ \E i \in Tasks : Dispatch(i)
    \/ \E i \in Tasks : SendRequest(i)
    \/ \E i \in Tasks : Response(i)
    \/ \E i \in Tasks : EndStream(i)
    \/ \E i \in Tasks : Handle(i)
    \/ \E i \in Tasks : LogAppend(i)
    \/ \E i \in Tasks : Wake(i)
    \/ \E i \in Tasks : Collect(i)
    \/ Finish

\* task i has used up its budget and ended
Spent(i) == pc[i] = "done" /\ Exhausted(retries[i])

\* C4: when a task exhausts its budget, download_task returns without raising:
\* the step leaves main and the other workers as they are, main never takes
\* the path of an unexpected error, the run is never stuck while a task is
\* not finished, and it ends with status 0 only when every task has reached
\* Success or GaveUp.
C4_GaveUpDoesNotAbort ==
    /\ [](\A i \in Tasks : Spent(i) =>
            /\ outcome[i] = "GaveUp"
            /\ main_pc \in {"pool", "exit0", "interrupted"}
            /\ main_pc = "pool" => ENABLED Work
            /\ main_pc = "exit0" =>
                 \A j \in Tasks : /\ pc[j] = "done"
                                  /\ collected[j]
                                  /\ outcome[j] \in {"Success", "GaveUp"})
    /\ [][\A i \in Tasks : (~Spent(i) /\ Spent(i)') =>
            /\ main_pc' = main_pc
            /\ \A j \in Tasks \ {i} : pc'[j] = pc[j] /\ outcome'[j] = outcome[j]
         ]_vars

\* a task gave up first, a task dispatched after it has succeeded, and the run
\* has ended with status 0
C4_Witness ==
    /\ main_pc = "exit0"
    /\ Len(tasks) = 2
    /\ outcome[1] = "GaveUp"
    /\ outcome[2] = "Success"
    /\ retries[2] > 0
    /\ cpus = 1

(***************************************************************************)
(* One call of download_file, seen when it has returned or raised.         *)
(***************************************************************************)
\* the file of task i, and the length of the resource behind its URL
FileOf(i) == disk[tasks[i].tar]
Total(i) == size[tasks[i].url]

\* the status a server that follows the range semantics answers with, for a
\* file of k bytes and a resource of T bytes: the whole resource to a request
\* without Range, the rest to a range that starts inside the resource, 416 to
\* a range that starts at or past its end
ServerStatus(k, T) == IF k = 0 THEN 200 ELSE IF k < T THEN 206 ELSE 416

\* the attempt of task i was answered by such a server, and a stream, if any,
\* ran to the end of the body
WellServed(i) ==
    LET a == att[i]
    IN  /\ a.status = ServerStatus(a.current_size, Total(i))
        /\ \/ a.how = "status"
           \/ a.how = "eof" /\ a.sent = Total(i) - a.from

\* the file after the attempt: the whole resource long, its first k bytes kept
Resumed(i) ==
    LET k == att[i].current_size
    IN  /\ Len(FileOf(i).data) = Total(i)
        /\ SubSeq(FileOf(i).data, 1, k) = att[i].before.data

\* C5 as stated: with k bytes on disk, 0 <= k <= T, and a well-behaved server,
\* the attempt leaves a file of T bytes whose first k bytes are unchanged, and
\* its outcome is Completed.
C5_ResumeCompleted ==
    \A i \in Tasks :
        (pc[i] = "ret" /\ WellServed(i) /\ att[i].current_size <= Total(i))
            => Resumed(i) /\ result[i] = "Completed"

\* C5, amended: the outcome is Completed when k = 0 or k < T, and
\* AlreadyComplete when k = T > 0, where the server answers 416.
C5_Resume ==
    \A i \in Tasks :
        (pc[i] = "ret" /\ WellServed(i) /\ att[i].current_size <= Total(i))
            => /\ Resumed(i)
               /\ result[i] = IF 0 < att[i].current_size
                                 /\ att[i].current_size = Total(i)
                              THEN "AlreadyComplete" ELSE "Completed"

\* a resume from 1 byte of 2
C5_Witness ==
    \E i \in Tasks :
        /\ pc[i] = "ret"
        /\ WellServed(i)
        /\ att[i].current_size = 1
        /\ Total(i) = 2
        /\ att[i].status = 206
        /\ result[i] = "Completed"
        /\ FileOf(i).data = Res(tasks[i].url)

\* C6: an attempt answered 416 returns without raising (AlreadyComplete) and
\* leaves the file as it was, so that a fetch on a file at full size can be
\* repeated with the same outcome and the same file; the task then ends in
\* Success with the file untouched.
C6_AlreadyComplete ==
    /\ [](\A i \in Tasks : (pc[i] = "ret" /\ att[i].status = 416) =>
            /\ result[i] = "AlreadyComplete"
            /\ FileOf(i) = att[i].before)
    /\ [][\A i \in Tasks :
            (pc[i] = "ret" /\ att[i].status = 416 /\ pc'[i] \notin {"ret", "killed"})
                => /\ outcome'[i] = "Success"
                   /\ disk' = disk
         ]_vars

\* 416 for a file that holds the whole resource, after an attempt that failed
C6_Witness ==
    \E i \in Tasks :
        /\ pc[i] = "ret"
        /\ att[i].status = 416
        /\ att[i].before.data = Res(tasks[i].url)
        /\ Total(i) = 2
        /\ attempts[i] = 2
        /\ result[i] = "AlreadyComplete"

\* C7: after a 200 or 206 with a known total_size whose stream ended without a
\* transport error, the outcome is Failed if the file is shorter than
\* total_size and Completed if not; a Failed outcome with budget left leads to
\* the sleep before another attempt.
C7_TruncatedStream ==
    /\ [](\A i \in Tasks :
            (pc[i] = "ret" /\ att[i].how = "eof" /\ att[i].total_size # NoSize) =>
                /\ att[i].status \in {200, 206}
                /\ SizeOf(FileOf(i)) < att[i].total_size => result[i] = "Failed"
                /\ SizeOf(FileOf(i)) >= att[i].total_size => result[i] = "Completed")
    /\ [](\A i \in Tasks : pc[i] \in {"call", "sleep"} => LoopGuard(retries[i]))
    /\ [][\A i \in Tasks :
            (/\ pc[i] = "ret"
             /\ result[i] = "Failed"
             /\ retries[i] < max_retries
             /\ pc'[i] \notin {"ret", "killed"})
                => pc'[i] = "sleep" /\ retries'[i] = retries[i] + 1
         ]_vars

\* the server declared 2 bytes and stopped after 1
C7_Witness ==
    \E i \in Tasks :
        /\ pc[i] = "ret"
        /\ att[i].how = "eof"
        /\ att[i].total_size = 2
        /\ SizeOf(FileOf(i)) = 1
        /\ result[i] = "Failed"

\* C8: a 200 or 206 without Content-Length whose stream ended without a
\* transport error is Completed, whatever number of bytes was received, and
\* the task ends in Success without a retry.
C8_UnknownLength ==
    /\ [](\A i \in Tasks :
            (pc[i] = "ret" /\ att[i].how = "eof" /\ att[i].content_length = NoSize)
                => result[i] = "Completed")
    /\ [][\A i \in Tasks :
            (/\ pc[i] = "ret"
             /\ att[i].how = "eof"
             /\ att[i].content_length = NoSize
             /\ pc'[i] \notin {"ret", "killed"})
                => /\ outcome'[i] = "Success"
                   /\ retries'[i] = retries[i]
                   /\ sleeps'[i] = sleeps[i]
         ]_vars

\* no byte received of a resource of 2 bytes
C8_Witness ==
    \E i \in Tasks :
        /\ pc[i] = "ret"
        /\ att[i].how = "eof"
        /\ att[i].content_length = NoSize
        /\ att[i].sent = 0
        /\ Total(i) = 2
        /\ SizeOf(FileOf(i)) = 0
        /\ result[i] = "Completed"

(***************************************************************************)
(* The work queue, seen when main has built its list of tasks.             *)
(***************************************************************************)
\* the targets of the manifest, and those with a URL that is not empty
ManifestTargets == Range(Keys(map2url))
WithUrl == {t \in ManifestTargets : Get(map2url, t) # Empty}

\* the identifiers the retry file lists: its non-blank lines, stripped
Listed ==
    LET NonBlank(l) == Strip(l) # <<>>
        kept == SelectSeq(retry_file.lines, NonBlank)
    IN  [j \in 1..Len(kept) |-> Strip(kept[j])]

\* the retry file selects: it exists and has a non-blank line
Selects == retry_file.exists /\ Listed # <<>>

\* the targets of the tasks, in order
TaskTargets == [j \in 1..Len(tasks) |-> tasks[j].tar]

\* every task is paired with the URL the manifest gives its target
PairedWithUrl == \A j \in Tasks : tasks[j].url = Get(map2url, tasks[j].tar)

\* the tasks are in ascending order of identifier, none twice
Ascending ==
    \A j, k \in Tasks : j < k => StrLess(tasks[j].tar, tasks[k].tar)

\* C10 as stated: without a selecting retry file the tasks are all manifest
\* targets in lexicographic order; with one, they are the listed identifiers
\* that the manifest holds, in the order given; each with its manifest URL,
\* and nothing is written to the failure log.
C10_SelectionAsStated ==
    main_pc # "start" =>
        /\ PairedWithUrl
        /\ failed_log = <<>>
        /\ IF Selects
           THEN LET Held(t) == t \in ManifestTargets
                IN  TaskTargets = SelectSeq(Listed, Held)
           ELSE Range(TaskTargets) = ManifestTargets /\ Ascending

\* C10, amended: a target whose manifest URL is empty is left out like one the
\* manifest does not hold.
C10_Selection ==
    main_pc # "start" =>
        /\ PairedWithUrl
        /\ failed_log = <<>>
        /\ IF Selects
           THEN LET Held(t) == t \in WithUrl
                IN  TaskTargets = SelectSeq(Listed, Held)
           ELSE Range(TaskTargets) = WithUrl /\ Ascending

\* no retry file: two targets of the manifest in another order than the
\* manifest's, and a third left out for its empty URL
C10_Witness ==
    /\ main_pc # "start"
    /\ ~retry_file.exists
    /\ Keys(map2url) = <<NameB, NameA, NameADash>>
    /\ TaskTargets = <<NameADash, NameB>>

(***************************************************************************)
(* The tasks of a target and the workers of the pool.                      *)
(***************************************************************************)
\* task i is in a call of download_file: from the read of the size to the
\* return or the exception
InAttempt(i) == pc[i] \in {"wait", "stream", "ret"}

\* task i holds the file of its target open
Writing(i) == pc[i] = "stream"

\* C11: the list of tasks holds at most one entry per target, so that at any
\* moment at most one worker is in a fetch attempt for a target and no two
\* workers hold the same file open.
C11_OneEntryPerTarget ==
    /\ \A i, j \in Tasks : i # j => tasks[i].tar # tasks[j].tar
    /\ \A i, j \in Tasks :
         (i # j /\ InAttempt(i) /\ InAttempt(j)) => tasks[i].tar # tasks[j].tar
    /\ \A i, j \in Tasks :
         (i # j /\ Writing(i) /\ Writing(j)) => tasks[i].tar # tasks[j].tar

\* the tasks name different targets
Distinct == \A i, j \in Tasks : i # j => tasks[i].tar # tasks[j].tar

\* the step is one of task i
Stepped(i) == pc'[i] # pc[i] \/ att'[i] # att[i]

\* the file the attempt of task i alone makes of the file it found: untouched
\* before the open, and from the open on what 'ab' kept of it, followed by
\* the bytes received
OwnFile(i) ==
    LET a == att[i]
        body == ResFrom(tasks[i].url, a.from)
    IN  IF a.mode = "" THEN a.before
        ELSE [exists |-> TRUE,
              data |-> (IF a.mode = "ab" THEN a.before.data ELSE <<>>)
                       \o SubSeq(body, 1, a.sent)]

\* what task i has left to do at most: the attempts of its budget, and the
\* steps of the current one
Cycle == 6 + RunSize
Rank(i) ==
    IF pc[i] = "queued" THEN (max_retries + 2) * Cycle
    ELSE IF pc[i] \in {"done", "killed"} THEN 0
    ELSE IF pc[i] = "log" THEN 1
    ELSE (max_retries + 1 - retries[i]) * Cycle
         + CASE pc[i] = "sleep" -> 5 + RunSize
             [] pc[i] = "call" -> 4 + RunSize
             [] pc[i] = "wait" -> 3 + RunSize
             [] pc[i] = "stream" ->
                    2 + Len(ResFrom(tasks[i].url, att[i].from)) - att[i].sent
             [] pc[i] = "ret" -> 1

\* C12: with different targets and fewer workers than tasks, under every
\* interleaving (1) the file of a target is changed by the steps of its own
\* task only, and during an attempt it is what that attempt alone makes of the
\* file it found, as in a run with one worker; (2) a step of a task leaves the
\* other tasks as they are; (3) every step brings a task or main nearer to
\* its end, the run is never stuck before the end, and it ends with every
\* task at Success or GaveUp.
C12_Isolation ==
    /\ [](/\ Distinct => \A i \in Tasks : InAttempt(i) => FileOf(i) = OwnFile(i)
          /\ main_pc \in {"start", "pool", "exit0"}
          /\ main_pc = "pool" => ENABLED Work
          /\ main_pc = "exit0" =>
                \A i \in Tasks : /\ pc[i] = "done"
                                 /\ outcome[i] \in {"Success", "GaveUp"})
    /\ [][/\ Distinct => \A i \in Tasks :
               ~Stepped(i) => /\ FileOf(i)' = FileOf(i)
                              /\ retries'[i] = retries[i]
                              /\ outcome'[i] = outcome[i]
                              /\ attempts'[i] = attempts[i]
          /\ \A i \in Tasks : Rank(i)' <= Rank(i) /\ (collected[i] => collected'[i])
          /\ \/ \E i \in Tasks : Rank(i)' < Rank(i)
             \/ \E i \in Tasks : ~collected[i] /\ collected'[i]
             \/ main_pc = "start" /\ main_pc' # "start"
             \/ main_pc = "pool" /\ main_pc' = "exit0"
         ]_vars

\* three tasks and two workers: one task has ended after a retry, and the two
\* others are writing the byte they received at the same time
C12_Witness ==
    /\ Len(tasks) = 3
    /\ cpus = 2
    /\ Distinct
    /\ \E i, j, k \in Tasks :
         /\ i # j
         /\ Writing(i) /\ att[i].sent = 1 /\ FileOf(i).data = Res(tasks[i].url)
         /\ Writing(j) /\ att[j].sent = 1 /\ FileOf(j).data = Res(tasks[j].url)
         /\ pc[k] = "done" /\ retries[k] > 0

(***************************************************************************)
(* The pool stopped: lines 236-245.                                        *)
(***************************************************************************)
\* main has left its loop by an exception
Stopped == main_pc \in {"interrupted", "error"}

\* C13: a KeyboardInterrupt in main's loop, and likewise any other exception
\* there, kills every worker where it is (in a sleep, in a stream, waiting
\* for an answer) without a further step of its attempt, leaves the queued
\* tasks queued and the files as they are, and ends the run with status 1;
\* from then on no task is dispatched and no worker moves.
C13_Interrupt ==
    /\ [](Stopped => /\ \A i \in Tasks : pc[i] \in {"queued", "done", "killed"}
                     /\ ExitStatus(main_pc) = 1
                     /\ ExitStatus(main_pc) # 0)
    /\ [][/\ (~Stopped /\ Stopped') =>
               /\ main_pc = "pool"
               /\ \A i \in Tasks :
                    pc'[i] = IF pc[i] \in {"queued", "done"} THEN pc[i] ELSE "killed"
               /\ UNCHANGED <<disk, failed_log, progress, collected, retries,
                              outcome, att, result, attempts, sleeps>>
          /\ Stopped => UNCHANGED vars
         ]_vars

\* two workers killed by the interrupt, one in the middle of a stream with a
\* byte written, the other between attempts after the sleep was set
C13_Witness ==
    /\ main_pc = "interrupted"
    /\ \E i, j \in Tasks :
         /\ pc[i] = "killed" /\ att[i].mode = "wb" /\ att[i].how = ""
         /\ att[i].sent = 1 /\ outcome[i] = "none"
         /\ pc[j] = "killed" /\ att[j] = NoAttempt /\ sleeps[j] = <<500>>
         /\ attempts[j] = 1 /\ outcome[j] = "none"

(***************************************************************************)
(* The file over the attempts of a task.                                   *)
(***************************************************************************)
\* task i has read the size of its file and sent its request
Started(i) == pc[i] = "wait"

\* C14: at the start of every attempt, the first and every retry, the file is
\* not longer than the resource, whatever the server answered before and
\* wherever a stream stopped.
C14_LengthBounded ==
    \A i \in Tasks : Started(i) => att[i].current_size <= Total(i)

\* the answer to the request of task i has come with a status that is streamed
Answered(i) == pc[i] \in {"stream", "ret"} /\ att[i].status \in {200, 206}

\* C15: with a Content-Length, total_size is Content-Length + current_size
\* for a 206, whose length is that of the rest, and the Content-Length itself
\* for a 200, whose body is the whole resource, for every current_size;
\* without one it is None.
C15_TotalSize ==
    \A i \in Tasks : Answered(i) =>
        att[i].total_size =
            IF att[i].content_length = NoSize THEN NoSize
            ELSE IF att[i].status = 206
                 THEN att[i].content_length + att[i].current_size
                 ELSE att[i].content_length

\* file f is kept in file g: g is not shorter and starts with the bytes of f
Kept(f, g) ==
    /\ Len(g.data) >= Len(f.data)
    /\ SubSeq(g.data, 1, Len(f.data)) = f.data
    /\ f.exists => g.exists

\* C16: the file is opened with 'wb' only when current_size is 0 and with
\* 'ab' otherwise, and over all the attempts for a target, however they end,
\* no step makes its file shorter, removes it or changes a byte it holds.
C16_NeverTruncates ==
    /\ [](\A i \in Tasks : Answered(i) =>
            att[i].mode = IF att[i].current_size = 0 THEN "wb" ELSE "ab")
    /\ [][\A t \in Targets : Kept(disk[t], disk'[t])]_vars

\* C17: an attempt sends Range: bytes=<current_size>- when the file it finds
\* is not empty and no Range header when it is, where current_size is the
\* size on disk as the attempt starts; an attempt that ends having written j
\* bytes leaves a file of its current_size + j bytes, which stays as it is
\* until the next attempt of the task reads its size, so that this attempt
\* asks for the bytes from current_size + j on.
C17_RangeFromSize ==
    /\ [](\A i \in Tasks :
            /\ InAttempt(i) =>
                 att[i].range = IF att[i].current_size > 0
                                THEN att[i].current_size ELSE NoSize
            /\ pc[i] = "ret" =>
                 SizeOf(FileOf(i)) = att[i].current_size + att[i].sent)
    /\ [][\A i \in Tasks :
            /\ (pc[i] = "call" /\ pc'[i] = "wait") =>
                 att'[i].current_size = SizeOf(FileOf(i))
            /\ (pc[i] \in {"ret", "sleep", "call"} /\ attempts[i] > 0) =>
                 SizeOf(FileOf(i)') = SizeOf(FileOf(i))
         ]_vars

(***************************************************************************)
(* The workers of the pool.                                                *)
(***************************************************************************)
\* the tasks being processed: in download_task, in an attempt, between two,
\* or at the write to failed_downloads.txt
Processing ==
    {i \in Tasks : pc[i] \in {"call", "wait", "stream", "ret", "sleep", "log"}}

\* a step of the worker that runs task i
TaskStep(i) ==
    \/ SendRequest(i)
    \/ Response(i)
    \/ EndStream(i)
    \/ Handle(i)
    \/ LogAppend(i)
    \/ Wake(i)

\* a worker is in a sleep or waits for the answer of the server
Blocked == \E i \in Tasks : pc[i] \in {"sleep", "wait"}

\* C18: never more tasks are being processed than the pool has workers; and
\* while a worker sleeps or waits for the network, every other worker that
\* runs a task can make its next step, and a free worker can take the next
\* queued task.
C18_BoundedPool ==
    /\ Cardinality(Processing) <= cpus
    /\ Blocked =>
         /\ \A j \in Processing : ENABLED TaskStep(j)
         /\ (/\ main_pc = "pool"
             /\ Cardinality(Processing) < cpus
             /\ \E j \in Tasks : pc[j] = "queued")
                => ENABLED (\E j \in Tasks : Dispatch(j))

\* two workers and three tasks: while the worker of the first task sleeps,
\* the other has finished the second task and taken the third
C18_Witness ==
    /\ cpus = 2
    /\ Len(tasks) = 3
    /\ pc[1] = "sleep"
    /\ attempts[1] = 1
    /\ pc[2] = "done"
    /\ pc[3] = "stream"
    /\ Cardinality(Processing) = cpus

(***************************************************************************)
(* failed_downloads.txt written by several workers.                        *)
(***************************************************************************)
\* C19: however the opens and the writes of the workers that gave up fall in
\* time, the failure log holds one whole line per task that gave up, none
\* lost and none twice, and a step only adds one line after the lines that
\* were there.
C19_AtomicAppends ==
    /\ [](/\ Len(failed_log) = Cardinality({i \in Tasks : outcome[i] = "GaveUp"})
          /\ \A t \in Targets : Count(failed_log, t) = Cardinality(GaveUp(t))
          /\ Range(failed_log) \subseteq Targets)
    /\ [][/\ Len(failed_log') >= Len(failed_log)
          /\ Len(failed_log') <= Len(failed_log) + 1
          /\ SubSeq(failed_log', 1, Len(failed_log)) = failed_log
         ]_vars

\* two workers opened the log while it was empty, and both lines are there
C19_Witness ==
    /\ Len(tasks) = 2
    /\ outcome[1] = "GaveUp" /\ att[1].log_at = 0
    /\ outcome[2] = "GaveUp" /\ att[2].log_at = 0
    /\ Len(failed_log) = 2
    /\ failed_log[1] # failed_log[2]
    /\ max_retries = 1

(***************************************************************************)
(* The end of a run that nothing stops.                                    *)
(***************************************************************************)
\* every task has ended with a success or given up
AllTerminal ==
    \A i \in Tasks : pc[i] = "done" /\ outcome[i] \in {"Success", "GaveUp"}

\* C20: with no interrupt and every attempt coming to an end, the run ends:
\* every task reaches Success or GaveUp, the progress count has grown by one
\* per task received and equals the number of tasks, and the exit status is 0
\* also when a target gave up; with no task the run ends with status 0 with
\* no pool and no worker.
C20_Termination ==
    /\ <>(main_pc = "exit0" /\ AllTerminal /\ progress = Len(tasks))
    /\ [](/\ progress = Cardinality({i \in Tasks : collected[i]})
          /\ main_pc = "exit0" =>
                /\ ExitStatus(main_pc) = 0
                /\ AllTerminal
                /\ progress = Len(tasks)
          /\ (main_pc # "start" /\ tasks = <<>>) =>
                main_pc = "exit0" /\ pc = <<>> /\ progress = 0)
    /\ [][/\ progress' \in {progress, progress + 1}
          /\ \A i \in Tasks :
               /\ collected[i] => collected'[i]
               /\ (~collected[i] /\ collected'[i]) =>
                    progress' = progress + 1 /\ pc[i] = "done"
          /\ main_pc' = "pool" => tasks' # <<>>
         ]_vars

\* a run of two tasks has ended with status 0: one task gave up and is in the
\* failure log, the other succeeded, and both were counted
C20_Witness ==
    /\ main_pc = "exit0"
    /\ ExitStatus(main_pc) = 0
    /\ Len(tasks) = 2
    /\ progress = 2
    /\ outcome[1] = "GaveUp"
    /\ outcome[2] = "Success"
    /\ Len(failed_log) = 1

====
